---- MODULE Spec2Model ----
(***************************************************************************)
(* Model of src/components/shared/thread/SelectedActivityGraph.js:         *)
(* findBestCallNode (the call-node disambiguation algorithm) and the click *)
(* handler _onSampleClick of SelectedThreadActivityGraphCanvas.            *)
(*                                                                         *)
(* Arrays of the source are functions over 0..len-1, as in JavaScript.     *)
(* callNodesOnSameCategoryPath is a sequence: element k of the source is   *)
(* element k+1 here.                                                       *)
(***************************************************************************)
EXTENDS Integers, Sequences, FiniteSets

\* ------------------------------------------------------------------ bounds
\* Number of call nodes in callNodeTable, and of samples of the thread, under Spec.
MaxNodes == 3
MaxSamples == 2
\* The same under SpecWide, where the chain of same-category ancestors can hold
\* three nodes below an ancestor of another category, and two samples besides
\* the clicked one can conflict with it.
WideNodes == 4
WideSamples == 3

\* The categories of the profile. findBestCallNode only tests a category for
\* being clickedCategory or not; null is a further value a sample can carry.
Categories == {0, 1}

\* --------------------------------------------------------- JavaScript values
\* callNodeTable.prefix[n] of a root.
NoPrefix == -1
\* The value null.
Null == -2
\* The value undefined (what an out-of-range array read yields).
Undefined == -3

VARIABLES
  callNodeTable,        \* props.callNodeInfo.callNodeTable: [prefix, depth, category, length]
  sampleCallNodes,      \* getSampleCallNodes(filteredThread.samples, ...): node or Null per sample
  sampleCategories,     \* getSampleCategories(fullThread.samples, fullThread.stackTable)
  selectedCallNodePath, \* the selection state changeSelectedCallNode writes
  clickedSample,        \* argument of the latest _onSampleClick, Null before any click
  outcome,              \* "idle" | "returned" | "diverged" : how the latest handler run ended
  resolverInvoked,      \* whether the latest handler run called findBestCallNode
  chosenCallNode,       \* the local chosenCallNode of the latest handler run, else Null
  dispatched            \* the effects the latest handler run emitted, in order

vars == << callNodeTable, sampleCallNodes, sampleCategories, selectedCallNodePath,
           clickedSample, outcome, resolverInvoked, chosenCallNode, dispatched >>

\* ------------------------------------------------------------ array reads
\* arr[i] in JavaScript: undefined when i is no index of arr.
At(arr, i) == IF i \in DOMAIN arr THEN arr[i] ELSE Undefined

\* ------------------------------------------------------------ call tree
RECURSIVE DepthOf(_, _)
\* depth of node n under the prefix array p: roots have depth 0.
DepthOf(p, n) == IF p[n] = NoPrefix THEN 0 ELSE 1 + DepthOf(p, p[n])

\* The call node tables of n nodes: depth[k] = depth[prefix[k]] + 1, roots have
\* depth 0. One table stands for all its renumberings: the nodes are numbered
\* level by level (prefix[k] < k and prefix is non-decreasing) and the
\* categories are named so that node 0 has category 0. The code uses a call
\* node as an index and compares call nodes, and categories, for equality only.
CallNodeTables(n) ==
  { [prefix |-> p, depth |-> [k \in 0 .. (n - 1) |-> DepthOf(p, k)],
     category |-> c, length |-> n] :
      p \in { q \in [0 .. (n - 1) -> {NoPrefix} \cup (0 .. (n - 1))] :
                /\ \A k \in 0 .. (n - 1) : q[k] < k
                /\ \A j, k \in 0 .. (n - 1) : j < k => q[j] <= q[k] },
      c \in { d \in [0 .. (n - 1) -> Categories] : d[0] = 0 } }

\* ------------------------------------------------------- findBestCallNode
RECURSIVE WalkSameCategoryPath(_, _, _, _)
\* The while (true) loop of lines 95-106. path is callNodesOnSameCategoryPath,
\* callNode the loop variable. exit is "root" for the return of line 99, "break"
\* for the break of line 102, and "loop" when an iteration leaves callNode
\* unchanged, so that the loop repeats the same iteration for ever (callNode
\* undefined: prefix[undefined] and category[undefined] are undefined).
WalkSameCategoryPath(tbl, clickedCategory, path, callNode) ==
  LET parentCallNode == At(tbl.prefix, callNode) IN
  IF parentCallNode = NoPrefix THEN [exit |-> "root", path |-> path]
  ELSE IF At(tbl.category, parentCallNode) # clickedCategory
       THEN [exit |-> "break", path |-> path]
  ELSE IF parentCallNode = callNode
       THEN [exit |-> "loop", path |-> path]
  ELSE WalkSameCategoryPath(tbl, clickedCategory, Append(path, parentCallNode),
                            parentCallNode)

RECURSIVE LimitWalkStrictGuard(_, _, _, _, _, _)
\* LimitWalk with the loop guard depth > walkUpToDepth: the topmost node of the
\* chain is never compared.
LimitWalkStrictGuard(tbl, clickedDepth, walkUpToDepth, st, callNode, depth) ==
  IF ~(depth > walkUpToDepth) THEN st
  ELSE IF callNode \in st.handled THEN st
  ELSE LET marked == [st EXCEPT !.handled = @ \cup {callNode}] IN
       IF depth <= clickedDepth /\ callNode = At(st.path, clickedDepth - depth + 1)
       THEN [marked EXCEPT !.path = SubSeq(st.path, 1, clickedDepth - depth)]
       ELSE LimitWalkStrictGuard(tbl, clickedDepth, walkUpToDepth, marked,
                                 At(tbl.prefix, callNode), depth - 1)

RECURSIVE LimitWalkKeepsConflict(_, _, _, _, _, _)
\* LimitWalk with the truncation one element short: the node the foreign
\* sample was found under stays in the chain.
LimitWalkKeepsConflict(tbl, clickedDepth, walkUpToDepth, st, callNode, depth) ==
  IF ~(depth >= walkUpToDepth) THEN st
  ELSE IF callNode \in st.handled THEN st
  ELSE LET marked == [st EXCEPT !.handled = @ \cup {callNode}] IN
       IF depth <= clickedDepth /\ callNode = At(st.path, clickedDepth - depth + 1)
       THEN [marked EXCEPT !.path = SubSeq(st.path, 1, clickedDepth - depth + 1)]
       ELSE LimitWalkKeepsConflict(tbl, clickedDepth, walkUpToDepth, marked,
                                   At(tbl.prefix, callNode), depth - 1)

RECURSIVE LimitWalkLengthFromDepth(_, _, _, _, _, _)
\* LimitWalk with the truncation callNodesOnSameCategoryPath.length = depth (a
\* length above the current one pads the array with undefined).
LimitWalkLengthFromDepth(tbl, clickedDepth, walkUpToDepth, st, callNode, depth) ==
  IF ~(depth >= walkUpToDepth) THEN st
  ELSE IF callNode \in st.handled THEN st
  ELSE LET marked == [st EXCEPT !.handled = @ \cup {callNode}] IN
       IF depth <= clickedDepth /\ callNode = At(st.path, clickedDepth - depth + 1)
       THEN [marked EXCEPT !.path = [i \in 1 .. depth |-> At(st.path, i)]]
       ELSE LimitWalkLengthFromDepth(tbl, clickedDepth, walkUpToDepth, marked,
                                     At(tbl.prefix, callNode), depth - 1)

RECURSIVE LimitWalk(_, _, _, _, _, _)
\* The while loop of limitSameCategoryPathToCommonAncestor, lines 118-131.
\* st = [path, handled]: callNodesOnSameCategoryPath and the set of nodes n
\* with handledCallNodes[n] = 1.
LimitWalk(tbl, clickedDepth, walkUpToDepth, st, callNode, depth) ==
  IF ~(depth >= walkUpToDepth) THEN st
  ELSE IF callNode \in st.handled THEN st
  ELSE LET marked == [st EXCEPT !.handled = @ \cup {callNode}] IN
       IF depth <= clickedDepth /\ callNode = At(st.path, clickedDepth - depth + 1)
       THEN [marked EXCEPT !.path = SubSeq(st.path, 1, clickedDepth - depth)]
       ELSE LimitWalk(tbl, clickedDepth, walkUpToDepth, marked,
                      At(tbl.prefix, callNode), depth - 1)

\* limitSameCategoryPathToCommonAncestor(callNode), lines 114-132.
LimitSameCategoryPathToCommonAncestor(tbl, clickedDepth, st, callNode) ==
  LET walkUpToDepth == clickedDepth - (Len(st.path) - 1) IN
  LimitWalk(tbl, clickedDepth, walkUpToDepth, st, callNode, tbl.depth[callNode])

RECURSIVE SampleLoopFrom(_, _, _, _, _, _, _)
\* The for loop of lines 134-141 from index sample on.
SampleLoopFrom(tbl, sCallNodes, sCategories, clickedCategory, clickedDepth, st, sample) ==
  IF ~(sample < Len(sCallNodes)) THEN st
  ELSE SampleLoopFrom(tbl, sCallNodes, sCategories, clickedCategory, clickedDepth,
         IF sCategories[sample + 1] # clickedCategory /\ sCallNodes[sample + 1] # Null
         THEN LimitSameCategoryPathToCommonAncestor(tbl, clickedDepth, st,
                                                    sCallNodes[sample + 1])
         ELSE st,
         sample + 1)

RECURSIVE SampleLoopUntilFirstConflict(_, _, _, _, _, _, _)
\* The for loop left at the first truncation of the chain.
SampleLoopUntilFirstConflict(tbl, sCallNodes, sCategories, clickedCategory,
                             clickedDepth, st, sample) ==
  IF ~(sample < Len(sCallNodes)) THEN st
  ELSE LET next == IF sCategories[sample + 1] # clickedCategory
                      /\ sCallNodes[sample + 1] # Null
                   THEN LimitSameCategoryPathToCommonAncestor(tbl, clickedDepth, st,
                                                              sCallNodes[sample + 1])
                   ELSE st
       IN IF Len(next.path) < Len(st.path) THEN next
          ELSE SampleLoopUntilFirstConflict(tbl, sCallNodes, sCategories,
                                            clickedCategory, clickedDepth, next,
                                            sample + 1)

\* SampleLoop with "first conflict wins": no sample after the first truncation
\* is looked at.
SampleLoopFirstConflictWins(tbl, sCallNodes, sCategories, clickedCategory, clickedDepth, st) ==
  SampleLoopUntilFirstConflict(tbl, sCallNodes, sCategories, clickedCategory,
                               clickedDepth, st, 0)

\* The for loop of lines 134-141 over all samples. The two sample arrays are
\* passed as sequences: sample i of the source is element i+1.
SampleLoop(tbl, sCallNodes, sCategories, clickedCategory, clickedDepth, st) ==
  SampleLoopFrom(tbl, sCallNodes, sCategories, clickedCategory, clickedDepth, st, 0)

\* LastOfPathOrClicked reading the first element of the chain, not the last.
FirstOfPathOrClicked(path, clickedCallNode) ==
  IF Len(path) > 0 THEN path[1] ELSE clickedCallNode

\* LastOfPathOrClicked reading one element past the end of the chain.
PastEndOfPathOrClicked(path, clickedCallNode) ==
  IF Len(path) > 0 THEN At(path, Len(path) + 1) ELSE clickedCallNode

\* LastOfPathOrClicked reading index 1 of the source array: the parent of the
\* clicked node when the chain still holds it.
ParentOfClickedOrClicked(path, clickedCallNode) ==
  IF Len(path) > 1 THEN path[2] ELSE clickedCallNode

\* The result of lines 143-146 for the final callNodesOnSameCategoryPath.
LastOfPathOrClicked(path, clickedCallNode) ==
  IF Len(path) > 0 THEN path[Len(path)] ELSE clickedCallNode

\* LeafCategoryMismatch with the test of lines 88-90 left out.
LeafCategoryMismatchDropped(tbl, clickedCallNode, clickedCategory) == FALSE

\* The early return of lines 88-90.
LeafCategoryMismatch(tbl, clickedCallNode, clickedCategory) ==
  At(tbl.category, clickedCallNode) # clickedCategory

\* RootReachedResult widening to the root the walk reached.
RootReachedResultWidest(tbl, path, clickedCallNode) == path[Len(path)]

\* The value returned at line 99, when the walk reaches a root.
RootReachedResult(tbl, path, clickedCallNode) == clickedCallNode

\* Whether the call findBestCallNode(...) returns at all.
FindBestCallNodeTerminates(tbl, clickedCallNode, clickedCategory) ==
  \/ LeafCategoryMismatch(tbl, clickedCallNode, clickedCategory)
  \/ WalkSameCategoryPath(tbl, clickedCategory, << clickedCallNode >>,
                          clickedCallNode).exit # "loop"

\* findBestCallNode, lines 80-147 (its value when it returns).
FindBestCallNode(tbl, sCallNodes, sCategories, clickedCallNode, clickedCategory) ==
  IF LeafCategoryMismatch(tbl, clickedCallNode, clickedCategory)
  THEN clickedCallNode
  ELSE LET clickedDepth == At(tbl.depth, clickedCallNode)
           walk == WalkSameCategoryPath(tbl, clickedCategory, << clickedCallNode >>,
                                        clickedCallNode)
       IN IF walk.exit = "root"
          THEN RootReachedResult(tbl, walk.path, clickedCallNode)
          ELSE LET st == SampleLoop(tbl, sCallNodes, sCategories, clickedCategory,
                                    clickedDepth,
                                    [path |-> walk.path, handled |-> {}])
               IN LastOfPathOrClicked(st.path, clickedCallNode)

\* An array of the source (a function over 0..n-1) as a sequence.
AsSeq(arr) == [i \in 1 .. Cardinality(DOMAIN arr) |-> arr[i - 1]]

\* ------------------------------------------------------------ the handler
RECURSIVE GetCallNodePathFromIndex(_, _)
\* getCallNodePathFromIndex(callNode, callNodeTable): the path from the root
\* down to callNode.
GetCallNodePathFromIndex(callNode, tbl) ==
  IF callNode \notin DOMAIN tbl.prefix THEN << >>
  ELSE IF tbl.prefix[callNode] = NoPrefix THEN << callNode >>
  ELSE Append(GetCallNodePathFromIndex(tbl.prefix[callNode], tbl), callNode)

ChangeSelectedCallNode(path) == [type |-> "changeSelectedCallNode", path |-> path]
FocusCallTree == [type |-> "focusCallTree", path |-> << >>]

\* SelectionEffects with the two selection changes exchanged.
SelectionEffectsChosenFirst(tbl, clickedCallNode, chosen) ==
  << ChangeSelectedCallNode(GetCallNodePathFromIndex(chosen, tbl)),
     ChangeSelectedCallNode(GetCallNodePathFromIndex(clickedCallNode, tbl)),
     FocusCallTree >>

\* The three calls of lines 196-204, in program order.
SelectionEffects(tbl, clickedCallNode, chosen) ==
  << ChangeSelectedCallNode(GetCallNodePathFromIndex(clickedCallNode, tbl)),
     ChangeSelectedCallNode(GetCallNodePathFromIndex(chosen, tbl)),
     FocusCallTree >>

RECURSIVE SelectionAfter(_, _)
\* The selection state after the effects, applied in order to selection sel.
SelectionAfter(sel, effects) ==
  IF effects = << >> THEN sel
  ELSE SelectionAfter(IF Head(effects).type = "changeSelectedCallNode"
                      THEN Head(effects).path ELSE sel,
                      Tail(effects))

\* The guard of lines 166-169: the unfiltered stack of the sample is null.
\* getSampleCategories (line 153) yields null exactly for these samples.
UnfilteredStackIsNull(sCategories, sampleIndex) == At(sCategories, sampleIndex) = Null

\* The guard of lines 177-180.
ClickedCallNodeIsNull(sCallNodes, sampleIndex) == At(sCallNodes, sampleIndex) = Null

\* _onSampleClick(sampleIndex), lines 157-205.
OnSampleClick(sampleIndex) ==
  LET clickedCategory == At(sampleCategories, sampleIndex)
      clickedCallNode == At(sampleCallNodes, sampleIndex)
  IN
  /\ clickedSample' = sampleIndex
  /\ UNCHANGED << callNodeTable, sampleCallNodes, sampleCategories >>
  /\ IF UnfilteredStackIsNull(sampleCategories, sampleIndex)
        \/ ClickedCallNodeIsNull(sampleCallNodes, sampleIndex)
     THEN /\ outcome' = "returned"
          /\ resolverInvoked' = FALSE
          /\ chosenCallNode' = Null
          /\ dispatched' = << >>
          /\ UNCHANGED selectedCallNodePath
     ELSE /\ resolverInvoked' = TRUE
          /\ IF FindBestCallNodeTerminates(callNodeTable, clickedCallNode, clickedCategory)
             THEN LET chosen ==
                        FindBestCallNode(callNodeTable, AsSeq(sampleCallNodes),
                                         AsSeq(sampleCategories), clickedCallNode,
                                         clickedCategory)
                      effects == SelectionEffects(callNodeTable, clickedCallNode, chosen)
                  IN /\ outcome' = "returned"
                     /\ chosenCallNode' = chosen
                     /\ dispatched' = effects
                     /\ selectedCallNodePath' = SelectionAfter(selectedCallNodePath, effects)
             ELSE /\ outcome' = "diverged"
                  /\ chosenCallNode' = Null
                  /\ dispatched' = << >>
                  /\ UNCHANGED selectedCallNodePath

\* The call nodes and the samples of the current props.
CallNodes == DOMAIN callNodeTable.prefix
Samples == DOMAIN sampleCallNodes

\* The indices a click can carry: every sample, and one index past the end.
ClickIndices == 0 .. Cardinality(Samples)

\* The component with the props of a thread of n call nodes and m samples,
\* before any click.
InitWith(n, m) ==
  /\ callNodeTable \in CallNodeTables(n)
  /\ sampleCallNodes \in [0 .. (m - 1) -> {Null} \cup (0 .. (n - 1))]
  /\ sampleCategories \in [0 .. (m - 1) -> {Null} \cup Categories]
  \* The filtered thread is computed from the full thread: a sample without an
  \* unfiltered stack has no filtered stack either.
  /\ \A s \in 0 .. (m - 1) : sampleCategories[s] = Null => sampleCallNodes[s] = Null
  /\ selectedCallNodePath = << >>
  /\ clickedSample = Null
  /\ outcome = "idle"
  /\ resolverInvoked = FALSE
  /\ chosenCallNode = Null
  /\ dispatched = << >>

Init == InitWith(MaxNodes, MaxSamples)
InitWide == InitWith(WideNodes, WideSamples)

Next == \E sampleIndex \in ClickIndices : OnSampleClick(sampleIndex)

Spec == Init /\ [][Next]_vars
SpecWide == InitWide /\ [][Next]_vars

\* ================================================================ properties
\* Vocabulary of the properties, defined on the tree itself and not through
\* the algorithm.

RECURSIVE AncestorsOrSelf(_)
\* n and every node reached from n by following prefix links.
AncestorsOrSelf(n) ==
  IF callNodeTable.prefix[n] = NoPrefix THEN {n}
  ELSE {n} \cup AncestorsOrSelf(callNodeTable.prefix[n])

StrictAncestors(n) == AncestorsOrSelf(n) \ {n}

\* The latest handler run was a click on a sample inside the arrays whose
\* unfiltered category and filtered call node are both non-null.
IsValidSample(s) ==
  s \in Samples /\ sampleCategories[s] # Null /\ sampleCallNodes[s] # Null
ValidClickDone == IsValidSample(clickedSample) /\ outcome = "returned"

ClickedCallNode == sampleCallNodes[clickedSample]
ClickedCategory == sampleCategories[clickedSample]

\* The samples of a category other than cat that have a call node.
ForeignSamples(cat) ==
  { s \in Samples : sampleCategories[s] # cat /\ sampleCallNodes[s] # Null }

\* The same-category chain of n for cat: n and its consecutive ancestors of
\* category cat.
SameCategoryChain(n, cat) ==
  { a \in AncestorsOrSelf(n) :
      \A b \in AncestorsOrSelf(n) :
         callNodeTable.depth[b] >= callNodeTable.depth[a]
            => callNodeTable.category[b] = cat }

\* findBestCallNode builds the chain: the clicked node has the clicked category
\* and some ancestor has another one.
ChainBuilt(n, cat) ==
  /\ callNodeTable.category[n] = cat
  /\ \E a \in AncestorsOrSelf(n) : callNodeTable.category[a] # cat

\* a is the call node of no foreign sample, nor an ancestor of one.
ConflictFree(a, cat) ==
  \A s \in ForeignSamples(cat) : a \notin AncestorsOrSelf(sampleCallNodes[s])

\* The node of least depth in a non-empty set of nodes of one root path.
Shallowest(S) == CHOOSE a \in S : \A b \in S : callNodeTable.depth[a] <= callNodeTable.depth[b]

\* C1 (as stated in the specification): after every valid click, the resolved
\* node is not a strict ancestor of the call node of any foreign-category sample.
C1_ConflictContainment_AsStated ==
  ValidClickDone =>
    \A s \in ForeignSamples(ClickedCategory) :
       chosenCallNode \notin StrictAncestors(sampleCallNodes[s])

\* C1 (amended): after every valid click whose resolved node is not the clicked
\* call node itself, the resolved node is not a strict ancestor of the call
\* node of any foreign-category sample.
C1_ConflictContainment ==
  (ValidClickDone /\ chosenCallNode # ClickedCallNode) =>
    \A s \in ForeignSamples(ClickedCategory) :
       chosenCallNode \notin StrictAncestors(sampleCallNodes[s])

\* A click that widened the selection up to just below a node of the
\* same-category chain that a foreign sample sits at or below.
C1_Witness ==
  /\ ValidClickDone
  /\ chosenCallNode # ClickedCallNode
  /\ callNodeTable.prefix[chosenCallNode] \in SameCategoryChain(ClickedCallNode, ClickedCategory)
  /\ \E s \in ForeignSamples(ClickedCategory) :
        callNodeTable.prefix[chosenCallNode] \in AncestorsOrSelf(sampleCallNodes[s])

\* The ancestors-or-self of the clicked node that are a strict ancestor of the
\* call node of no foreign-category sample.
SafeAncestors ==
  { a \in AncestorsOrSelf(ClickedCallNode) :
      \A s \in ForeignSamples(ClickedCategory) :
         a \notin StrictAncestors(sampleCallNodes[s]) }

\* C2 (as stated in the specification): after every valid click, the resolved
\* node is the shallowest of all ancestors-or-self of the clicked node, up to
\* the root, that are a strict ancestor of no foreign sample's call node.
C2_Maximality_AsStated ==
  ValidClickDone =>
    /\ chosenCallNode \in SafeAncestors
    /\ \A a \in SafeAncestors :
          callNodeTable.depth[chosenCallNode] <= callNodeTable.depth[a]

\* C2 (amended): after every valid click for which the same-category chain is
\* built, no node of that chain that is neither the call node of a foreign
\* sample nor an ancestor of one is shallower than the resolved node.
C2_Maximality ==
  (ValidClickDone /\ ChainBuilt(ClickedCallNode, ClickedCategory)) =>
    \A a \in SameCategoryChain(ClickedCallNode, ClickedCategory) :
       ConflictFree(a, ClickedCategory)
          => callNodeTable.depth[chosenCallNode] <= callNodeTable.depth[a]

\* A click resolved to a proper ancestor of the clicked node, with a conflict
\* further up the chain.
C2_Witness ==
  /\ ValidClickDone
  /\ ChainBuilt(ClickedCallNode, ClickedCategory)
  /\ chosenCallNode # ClickedCallNode
  /\ \E a \in SameCategoryChain(ClickedCallNode, ClickedCategory) :
        ~ConflictFree(a, ClickedCategory)

\* C3: after every valid click, the resolved node is the clicked call node or
\* one of its ancestors by prefix links.
C3_AncestorOrSelf ==
  ValidClickDone => chosenCallNode \in AncestorsOrSelf(ClickedCallNode)

\* A click whose chain was emptied by a foreign sample below the clicked node.
C3_Witness ==
  /\ ValidClickDone
  /\ ChainBuilt(ClickedCallNode, ClickedCategory)
  /\ \E s \in ForeignSamples(ClickedCategory) :
        ClickedCallNode \in AncestorsOrSelf(sampleCallNodes[s])
  /\ chosenCallNode = ClickedCallNode

\* The permutations of the sample indices.
SamplePermutations ==
  { p \in [Samples -> Samples] : \A s \in Samples : \E t \in Samples : p[t] = s }

\* The array arr with its elements in the order p, as a sequence.
Permuted(arr, p) == [i \in 1 .. Cardinality(Samples) |-> arr[p[i - 1]]]

\* C4: after every valid click, findBestCallNode returns the resolved node for
\* every simultaneous permutation of the two sample arrays.
C4_OrderIndependence ==
  ValidClickDone =>
    \A p \in SamplePermutations :
       FindBestCallNode(callNodeTable, Permuted(sampleCallNodes, p),
                        Permuted(sampleCategories, p), ClickedCallNode,
                        ClickedCategory) = chosenCallNode

\* A click with two foreign samples that conflict with the chain at two
\* different nodes of it.
C4_Witness ==
  /\ ValidClickDone
  /\ ChainBuilt(ClickedCallNode, ClickedCategory)
  /\ \E s, t \in ForeignSamples(ClickedCategory) :
        /\ sampleCallNodes[s] # sampleCallNodes[t]
        /\ sampleCallNodes[s] \in SameCategoryChain(ClickedCallNode, ClickedCategory)
        /\ sampleCallNodes[t] \in SameCategoryChain(ClickedCallNode, ClickedCategory)
        /\ s < t
        /\ callNodeTable.depth[sampleCallNodes[s]] < callNodeTable.depth[sampleCallNodes[t]]

\* C5: after every valid click, a click on any sample whose call node is the
\* resolved node and whose unfiltered category is non-null resolves to the
\* resolved node again.
C5_IdempotenceAdjacent ==
  ValidClickDone =>
    \A s \in Samples :
       (sampleCallNodes[s] = chosenCallNode /\ sampleCategories[s] # Null) =>
          /\ FindBestCallNodeTerminates(callNodeTable, chosenCallNode, sampleCategories[s])
          /\ FindBestCallNode(callNodeTable, AsSeq(sampleCallNodes),
                              AsSeq(sampleCategories), chosenCallNode,
                              sampleCategories[s]) = chosenCallNode

\* A click that widened the selection to a node that another sample maps to,
\* with a conflict above the resolved node.
C5_Witness ==
  /\ ValidClickDone
  /\ chosenCallNode # ClickedCallNode
  /\ \E s \in Samples : sampleCallNodes[s] = chosenCallNode /\ sampleCategories[s] # Null
  /\ callNodeTable.prefix[chosenCallNode] \in SameCategoryChain(ClickedCallNode, ClickedCategory)

\* C6: after every valid click on a sample whose call node has a category
\* other than the sample's unfiltered category, the resolved node is the
\* clicked call node.
C6_ExactLeafMismatch ==
  (ValidClickDone /\ callNodeTable.category[ClickedCallNode] # ClickedCategory) =>
    chosenCallNode = ClickedCallNode

\* A mismatching click on a node whose parent has the clicked category and
\* with no foreign sample at all.
C6_Witness ==
  /\ ValidClickDone
  /\ callNodeTable.category[ClickedCallNode] # ClickedCategory
  /\ callNodeTable.prefix[ClickedCallNode] # NoPrefix
  /\ callNodeTable.category[callNodeTable.prefix[ClickedCallNode]] = ClickedCategory
  /\ ForeignSamples(ClickedCategory) = {}

\* C7: after every valid click on a call node that has, like all its
\* ancestors up to the root, the clicked category, the resolved node is the
\* clicked call node.
C7_UniformTreeFallback ==
  (ValidClickDone /\ \A a \in AncestorsOrSelf(ClickedCallNode) :
                        callNodeTable.category[a] = ClickedCategory) =>
    chosenCallNode = ClickedCallNode

\* A click on a non-root node of a uniform path, with a foreign sample elsewhere.
C7_Witness ==
  /\ ValidClickDone
  /\ \A a \in AncestorsOrSelf(ClickedCallNode) : callNodeTable.category[a] = ClickedCategory
  /\ callNodeTable.prefix[ClickedCallNode] # NoPrefix
  /\ ForeignSamples(ClickedCategory) # {}

\* C8 (as stated in the specification): a click whose sample index is out of
\* bounds, or whose sample has no unfiltered stack or no filtered call node,
\* ends with the handler returned, the resolver not invoked and nothing
\* dispatched (so that the selection is what it was).
C8_InvalidClickNoSelection_AsStated ==
  (clickedSample # Null /\ ~IsValidSample(clickedSample)) =>
    /\ outcome = "returned"
    /\ ~resolverInvoked
    /\ dispatched = << >>

WidestSafeMatch(n, cat) ==
  LET safe == { a \in SameCategoryChain(n, cat) : ConflictFree(a, cat) }
  IN IF safe = {} THEN n ELSE Shallowest(safe)

\* C10: after every valid click for which the same-category chain is built,
\* the resolved node is the shallowest node of the chain that is neither the
\* call node of a foreign sample nor an ancestor of one, and the clicked node
\* if the chain has no such node.
C10_WidestSafeMatch ==
  (ValidClickDone /\ ChainBuilt(ClickedCallNode, ClickedCategory)) =>
    chosenCallNode = WidestSafeMatch(ClickedCallNode, ClickedCategory)

\* A click with two foreign samples below one chain node, the second of which
\* walks into nodes the first one marked as handled.
C10_Witness ==
  /\ ValidClickDone
  /\ ChainBuilt(ClickedCallNode, ClickedCategory)
  /\ chosenCallNode # ClickedCallNode
  /\ \E s, t \in ForeignSamples(ClickedCategory) :
        /\ s # t
        /\ sampleCallNodes[s] \notin AncestorsOrSelf(ClickedCallNode)
        /\ sampleCallNodes[s] \in AncestorsOrSelf(sampleCallNodes[t])
        /\ callNodeTable.prefix[chosenCallNode] \in AncestorsOrSelf(sampleCallNodes[s])

====
